---- MODULE Spec2Model ----
(***************************************************************************)
(* Platonic Solids Generator (Blender add-on), versions 2.0, 1.3 and 1.1.  *)
(*                                                                         *)
(* Units.  Coordinates are fixed-point: one model unit is 10^-6 scene      *)
(* units (the tables of v2 have three decimals, those of v1.3 six).        *)
(* Scales are in tenths (0.1 -> 1, 1.0 -> 10, 10.0 -> 100).  Colour        *)
(* channels are in thousandths (0.8 -> 800, 1.0 -> 1000).                  *)
(***************************************************************************)
EXTENDS Integers, Sequences, FiniteSets, TLC

VARIABLES
    props,      \* context.scene.platonic_props, as stored (after clamping)
    request,    \* history: the raw values last assigned to props.scale / props.color
    objects,    \* the objects linked to the collection, in creation order
    materials,  \* bpy.data.materials: name -> diffuse_color
    active,     \* context.view_layer.objects.active: an index into objects, 0 for None
    last,       \* history: the last operator run, the settings it read, what it returned
    heap,       \* the geometries a script still holds from its own get_geometry() calls
    ret         \* history: what the last direct geometry call returned

vars == <<props, request, objects, materials, active, last, heap, ret>>

(***************************************************************************)
(* Geometry tables                                                         *)
(***************************************************************************)

\* A v2 coordinate triple written with three decimals, in model units.
V3(x, y, z) == <<1000 * x, 1000 * y, 1000 * z>>

Geometry(v, e, f) == [vertices |-> v, edges |-> e, faces |-> f]

Tetrahedron_get_geometry ==
    Geometry(
        << V3(943, 0, -333), V3(-471, -816, -333), V3(-471, 816, -333), V3(0, 0, 1000) >>,
        << >>,
        << <<0, 1, 2>>, <<0, 1, 3>>, <<0, 2, 3>>, <<1, 2, 3>> >>)

Cube_get_geometry ==
    Geometry(
        << V3(1000, 1000, 1000), V3(1000, -1000, 1000), V3(-1000, -1000, 1000),
           V3(-1000, 1000, 1000), V3(1000, 1000, -1000), V3(1000, -1000, -1000),
           V3(-1000, -1000, -1000), V3(-1000, 1000, -1000) >>,
        << >>,
        << <<0, 1, 2, 3>>, <<4, 5, 6, 7>>, <<0, 4, 5, 1>>,
           <<1, 5, 6, 2>>, <<2, 6, 7, 3>>, <<3, 7, 4, 0>> >>)

Octahedron_get_geometry ==
    Geometry(
        << V3(0, 0, -1000), V3(-1000, 0, 0), V3(0, -1000, 0),
           V3(1000, 0, 0), V3(0, 1000, 0), V3(0, 0, 1000) >>,
        << >>,
        << <<0, 1, 2>>, <<0, 2, 3>>, <<0, 3, 4>>, <<0, 4, 1>>,
           <<5, 1, 2>>, <<5, 2, 3>>, <<5, 3, 4>>, <<5, 4, 1>> >>)

Dodecahedron_get_geometry ==
    Geometry(
        << V3(1000, 1000, 1000), V3(1000, -1000, 1000), V3(-1000, -1000, 1000),
           V3(-1000, 1000, 1000),
           V3(1000, 1000, -1000), V3(1000, -1000, -1000), V3(-1000, -1000, -1000),
           V3(-1000, 1000, -1000),
           V3(0, 1618, 618), V3(0, -1618, 618),
           V3(0, -1618, -618), V3(0, 1618, -618),
           V3(618, 0, 1618), V3(-618, 0, 1618),
           V3(-618, 0, -1618), V3(618, 0, -1618),
           V3(1618, 618, 0), V3(-1618, 618, 0),
           V3(-1618, -618, 0), V3(1618, -618, 0) >>,
        << >>,
        << <<8, 11, 4, 16, 0>>, <<8, 11, 7, 17, 3>>, <<9, 10, 5, 19, 1>>,
           <<9, 10, 6, 18, 2>>, <<12, 13, 3, 8, 0>>, <<12, 13, 2, 9, 1>>,
           <<15, 14, 7, 11, 4>>, <<15, 14, 6, 10, 5>>, <<16, 19, 1, 12, 0>>,
           <<16, 19, 5, 15, 4>>, <<17, 18, 2, 13, 3>>, <<17, 18, 6, 14, 7>> >>)

Icosahedron_get_geometry ==
    Geometry(
        << V3(0, 1000, 1618), V3(0, -1000, 1618), V3(0, 1000, -1618), V3(0, -1000, -1618),
           V3(1618, 0, 1000), V3(1618, 0, -1000), V3(-1618, 0, 1000), V3(-1618, 0, -1000),
           V3(1000, 1618, 0), V3(-1000, 1618, 0), V3(1000, -1618, 0), V3(-1000, -1618, 0) >>,
        << >>,
        << <<0, 1, 4>>, <<0, 1, 6>>, <<2, 3, 5>>, <<2, 3, 7>>,
           <<4, 5, 8>>, <<4, 5, 10>>, <<6, 7, 9>>, <<6, 7, 11>>,
           <<8, 9, 0>>, <<8, 9, 2>>, <<10, 11, 1>>, <<10, 11, 3>>,
           <<0, 4, 8>>, <<1, 4, 10>>, <<1, 6, 11>>, <<0, 6, 9>>,
           <<2, 5, 8>>, <<3, 5, 10>>, <<3, 7, 11>>, <<2, 7, 9>> >>)

\* The keys of solid_classes, in the dictionary's order.
ShapeTypes == <<"TETRAHEDRON", "CUBE", "OCTAHEDRON", "DODECAHEDRON", "ICOSAHEDRON">>

Kinds == {ShapeTypes[i] : i \in 1..Len(ShapeTypes)}

\* solid_classes: shape type -> class.
solid_classes ==
    [k \in Kinds |->
        CASE k = "TETRAHEDRON" -> "Tetrahedron"
          [] k = "CUBE" -> "Cube"
          [] k = "OCTAHEDRON" -> "Octahedron"
          [] k = "DODECAHEDRON" -> "Dodecahedron"
          [] k = "ICOSAHEDRON" -> "Icosahedron"]

\* solid_classes.get(shape_type, Tetrahedron)
solid_class_for(shape_type) ==
    IF shape_type \in DOMAIN solid_classes THEN solid_classes[shape_type] ELSE "Tetrahedron"

\* The geometry each class's get_geometry builds.
class_geometry(cls) ==
    CASE cls = "Tetrahedron" -> Tetrahedron_get_geometry
      [] cls = "Cube" -> Cube_get_geometry
      [] cls = "Octahedron" -> Octahedron_get_geometry
      [] cls = "Dodecahedron" -> Dodecahedron_get_geometry
      [] cls = "Icosahedron" -> Icosahedron_get_geometry

\* Faulty variant of get_geometry: the dodecahedron's table lost its last face.
get_geometry_dropface(cls) ==
    LET g == class_geometry(cls)
    IN  IF cls = "Dodecahedron"
        THEN [g EXCEPT !.faces = SubSeq(g.faces, 1, Len(g.faces) - 1)]
        ELSE g

\* Faulty variant of get_geometry: one face of the cube is written with 1-based
\* indices.
get_geometry_badindex(cls) ==
    LET g == class_geometry(cls)
    IN  IF cls = "Cube"
        THEN [g EXCEPT !.faces[2] = <<5, 6, 7, 8>>]
        ELSE g

\* Faulty variant of get_geometry: the tetrahedron's faces are rewritten so that
\* they all turn the same way round the solid.
get_geometry_rewound(cls) ==
    LET g == class_geometry(cls)
    IN  IF cls = "Tetrahedron"
        THEN [g EXCEPT !.faces = << <<0, 1, 2>>, <<0, 3, 1>>, <<0, 2, 3>>, <<1, 3, 2>> >>]
        ELSE g

\* Faulty variant of get_geometry: one index of the icosahedron's last face is
\* mistyped (8 for 9).
get_geometry_typo(cls) ==
    LET g == class_geometry(cls)
    IN  IF cls = "Icosahedron"
        THEN [g EXCEPT !.faces[20] = <<2, 7, 8>>]
        ELSE g

\* solid.get_geometry(), dispatched on the class of solid.
get_geometry(cls) == class_geometry(cls)

\* v1.1: generate_geometry(name); the lists start empty and a name that matches
\* no case leaves them so.
generate_geometry(name) ==
    CASE name = "TETRAHEDRON" -> Tetrahedron_get_geometry
      [] name = "CUBE" ->
            [Cube_get_geometry EXCEPT !.faces =
                << <<0, 1, 2, 3>>, <<0, 1, 5, 4>>, <<1, 2, 6, 5>>,
                   <<2, 3, 7, 6>>, <<3, 0, 4, 7>>, <<4, 5, 6, 7>> >>]
      [] name = "OCTAHEDRON" -> Octahedron_get_geometry
      [] name = "DODECAHEDRON" -> Dodecahedron_get_geometry
      [] name = "ICOSAHEDRON" -> Icosahedron_get_geometry
      [] OTHER -> Geometry(<< >>, << >>, << >>)

(***************************************************************************)
(* v1.3 tables: the tetrahedron, cube and octahedron are larger than in    *)
(* v2; the dodecahedron and icosahedron are the same data.                 *)
(***************************************************************************)

Tetrahedron13_get_geometry ==
    Geometry(
        << <<1633324, 943000, -666000>>, <<204, -1884353, -666000>>,
           <<-1631796, 942353, -666000>>, <<0, 0, 2000000>> >>,
        << >>,
        << <<0, 1, 2>>, <<0, 1, 3>>, <<0, 2, 3>>, <<1, 2, 3>> >>)

Cube13_get_geometry ==
    Geometry(
        << V3(1500, 1500, 1500), V3(1500, -1500, 1500), V3(-1500, -1500, 1500),
           V3(-1500, 1500, 1500), V3(1500, 1500, -1500), V3(1500, -1500, -1500),
           V3(-1500, -1500, -1500), V3(-1500, 1500, -1500) >>,
        << >>,
        << <<0, 1, 2, 3>>, <<4, 5, 6, 7>>, <<0, 4, 5, 1>>,
           <<1, 5, 6, 2>>, <<2, 6, 7, 3>>, <<3, 7, 4, 0>> >>)

Octahedron13_get_geometry ==
    Geometry(
        << V3(0, 0, -1500), V3(-1500, 0, 0), V3(0, -1500, 0),
           V3(1500, 0, 0), V3(0, 1500, 0), V3(0, 0, 1500) >>,
        << >>,
        << <<0, 1, 2>>, <<0, 2, 3>>, <<0, 3, 4>>, <<0, 4, 1>>,
           <<5, 1, 2>>, <<5, 2, 3>>, <<5, 3, 4>>, <<5, 4, 1>> >>)

\* v1.3: solid.get_geometry(), dispatched on the class of solid.
get_geometry13(cls) ==
    CASE cls = "Tetrahedron" -> Tetrahedron13_get_geometry
      [] cls = "Cube" -> Cube13_get_geometry
      [] cls = "Octahedron" -> Octahedron13_get_geometry
      [] cls = "Dodecahedron" -> Dodecahedron_get_geometry
      [] cls = "Icosahedron" -> Icosahedron_get_geometry

(***************************************************************************)
(* PlatonicSolidProperties                                                 *)
(***************************************************************************)

\* scale: FloatProperty(default=1.0, min=0.1, max=10.0), in tenths.
ScaleDefault == 10
ScaleMin == 1
ScaleMax == 100

\* color: FloatVectorProperty(size=4, min=0.0, max=1.0), in thousandths.
ChannelMin == 0
ChannelMax == 1000
ColorDefault == <<800, 800, 800, 1000>>

\* The values a user or a script tries to assign to props.scale.
ScaleInputs == {-10, 0, 10, 150}

\* The values a user or a script tries to assign to props.color.
ColorInputs == {ColorDefault, <<1500, -200, 0, 1000>>}

\* A property with a hard min and max stores the nearest value in range.
clamp(v, lo, hi) == IF v < lo THEN lo ELSE IF v > hi THEN hi ELSE v

\* Faulty variant of scale_property: the minimum is not enforced.
scale_property_nomin(v) == IF v > ScaleMax THEN ScaleMax ELSE v

\* What props.scale holds after props.scale = v.
scale_property(v) == clamp(v, ScaleMin, ScaleMax)

\* Faulty variant of color_property: the channels are stored as given.
color_property_unclamped(c) == c

\* What props.color holds after props.color = c.
color_property(c) == [i \in 1..4 |-> clamp(c[i], ChannelMin, ChannelMax)]

PropsDefault ==
    [shape_type |-> "TETRAHEDRON",
     color |-> ColorDefault,
     scale |-> ScaleDefault,
     clear_before_create |-> FALSE]

\* shape_type is an EnumProperty over the keys of solid_classes: only those can
\* be assigned.
SetShapeType(k) ==
    /\ k \in Kinds
    /\ props' = [props EXCEPT !.shape_type = k]
    /\ UNCHANGED <<request, objects, materials, active, last, heap, ret>>

SetScale(v) ==
    /\ props' = [props EXCEPT !.scale = scale_property(v)]
    /\ request' = [request EXCEPT !.scale = v]
    /\ UNCHANGED <<objects, materials, active, last, heap, ret>>

SetColor(c) ==
    /\ props' = [props EXCEPT !.color = color_property(c)]
    /\ request' = [request EXCEPT !.color = c]
    /\ UNCHANGED <<objects, materials, active, last, heap, ret>>

SetClearBeforeCreate(b) ==
    /\ props' = [props EXCEPT !.clear_before_create = b]
    /\ UNCHANGED <<request, objects, materials, active, last, heap, ret>>

(***************************************************************************)
(* SolidBuilder and the generate operator (v2)                             *)
(***************************************************************************)

\* Bound: the objects a scene may hold.
MaxObjects == 1

\* Faulty variant of create_mesh: from_pydata is given the faces where it expects
\* the edges and the edges where it expects the faces.
create_mesh_swapped(name, vertices, edges, faces) ==
    [name |-> name, vertices |-> vertices, edges |-> faces, faces |-> edges,
     materials |-> << >>]

\* SolidBuilder.create_mesh: from_pydata copies the lists into a new mesh.
create_mesh(name, vertices, edges, faces) ==
    [name |-> name, vertices |-> vertices, edges |-> edges, faces |-> faces,
     materials |-> << >>]

\* SolidBuilder.create_material: bpy.data.materials after the call; the material
\* of that name is reused, or created, and takes the colour.
\* Faulty variant of create_material: the colour is set only when the material
\* is created, so a material that exists keeps the colour it has.
create_material_keep(mats, name, color) ==
    IF name \in DOMAIN mats THEN mats ELSE (name :> color) @@ mats

create_material(mats, name, color) == (name :> color) @@ mats

\* f"{name}_Material"
material_name(name) == name \o "_Material"

\* Every coordinate of every vertex multiplied by s tenths.
scaled_vertices(vertices, s) ==
    [i \in 1..Len(vertices) |-> [j \in 1..3 |-> (vertices[i][j] * s) \div 10]]

\* Faulty variant of new_object: the scale is baked into the vertices and set on
\* the object as well.
new_object_baked(name, g, s, location) ==
    [name |-> name,
     mesh |-> [create_mesh(name, scaled_vertices(g.vertices, s), g.edges, g.faces)
                  EXCEPT !.materials = <<material_name(name)>>],
     location |-> location,
     scale |-> <<s, s, s>>,
     select |-> TRUE]

\* The object execute builds: a mesh of the geometry as returned, the scale on
\* the object, the material in the mesh's first slot, selected.
new_object(name, g, s, location) ==
    [name |-> name,
     mesh |-> [create_mesh(name, g.vertices, g.edges, g.faces)
                  EXCEPT !.materials = <<material_name(name)>>],
     location |-> location,
     scale |-> <<s, s, s>>,
     select |-> TRUE]

\* Faulty variant of call_get_geometry: the lists are kept and handed out again
\* to the next caller asking for the same class.
call_get_geometry_shared(cls, h) ==
    IF \E a \in 1..Len(h) : h[a].cls = cls
    THEN [heap |-> h, ref |-> CHOOSE a \in 1..Len(h) : h[a].cls = cls]
    ELSE [heap |-> Append(h, [cls |-> cls, geom |-> get_geometry(cls)]),
          ref |-> Len(h) + 1]

\* A call of get_geometry builds its lists anew: the heap after the call and the
\* place of the lists returned.
call_get_geometry(cls, h) ==
    [heap |-> Append(h, [cls |-> cls, geom |-> get_geometry(cls)]),
     ref |-> Len(h) + 1]

\* Faulty variant of objects_after_clear: the scene is never cleared.
objects_after_clear_never(objs) == objs

\* select_all(action='SELECT') then object.delete(): no object is left.
objects_after_clear(objs) == IF props.clear_before_create THEN << >> ELSE objs

\* OBJECT_OT_generate_platonic.execute, in a scene that holds at most limit
\* objects.  last also records, as history, the colour each material was given
\* by the latest generate that used it (painted) and the colour the material
\* used now had before (previous, empty when the material is new).
GenerateWithin(limit) ==
    LET kept == objects_after_clear(objects)
        call == call_get_geometry(solid_class_for(props.shape_type), heap)
        g    == call.heap[call.ref].geom
        obj  == new_object(props.shape_type, g, props.scale, <<0, 0, 0>>)
        mat  == material_name(props.shape_type)
    IN  /\ Len(kept) < limit
        /\ objects' = Append(kept, obj)
        /\ materials' = create_material(materials, material_name(props.shape_type),
                                        props.color)
        /\ active' = Len(kept) + 1
        /\ last' = [op |-> "generate", shape_type |-> props.shape_type,
                    scale |-> props.scale, color |-> props.color,
                    request |-> request, created |-> Len(objects') - Len(kept),
                    painted |-> (mat :> props.color) @@ last.painted,
                    previous |-> IF mat \in DOMAIN materials
                                 THEN <<materials[mat]>> ELSE << >>,
                    result |-> "FINISHED"]
        /\ UNCHANGED <<props, request, heap, ret>>

Generate == GenerateWithin(MaxObjects)

Init ==
    /\ props = PropsDefault
    /\ request = [scale |-> ScaleDefault, color |-> ColorDefault]
    /\ objects = << >>
    /\ materials = << >>
    /\ active = 0
    /\ last = [op |-> "none", shape_type |-> "TETRAHEDRON", scale |-> ScaleDefault,
               color |-> ColorDefault,
               request |-> [scale |-> ScaleDefault, color |-> ColorDefault],
               created |-> 0, painted |-> << >>, previous |-> << >>,
               result |-> "none"]
    /\ heap = << >>
    /\ ret = [api |-> "none", name |-> "none", geom |-> Geometry(<< >>, << >>, << >>),
              after_mutation |-> FALSE, result |-> "none"]

\* The v2 add-on with the colour left at its default.
Next ==
    \/ \E k \in Kinds : SetShapeType(k)
    \/ \E v \in ScaleInputs : SetScale(v)
    \/ \E b \in BOOLEAN : SetClearBeforeCreate(b)
    \/ Generate

Spec == Init /\ [][Next]_vars

\* The v2 add-on with the scale left at its default.
NextColor ==
    \/ \E k \in Kinds : SetShapeType(k)
    \/ \E c \in ColorInputs : SetColor(c)
    \/ \E b \in BOOLEAN : SetClearBeforeCreate(b)
    \/ Generate

SpecColor == Init /\ [][NextColor]_vars

\* The most objects a scene holds when several are generated into it.
MaxSceneObjects == 2

\* The kinds generated into that scene: a triangle-, a square- and a
\* pentagon-faced one.
SceneKinds == {"TETRAHEDRON", "CUBE", "DODECAHEDRON"}

\* The v2 add-on generating several objects into one scene, the scale left at
\* its default.
NextScene ==
    \/ \E k \in SceneKinds : SetShapeType(k)
    \/ \E c \in ColorInputs : SetColor(c)
    \/ \E b \in BOOLEAN : SetClearBeforeCreate(b)
    \/ GenerateWithin(MaxSceneObjects)

SpecScene == Init /\ [][NextScene]_vars

(***************************************************************************)
(* A script that uses the geometry code directly                           *)
(***************************************************************************)

\* Bound: the geometries a script holds at a time.
MaxHeap == 2

\* The names a script may ask for: the five shape types and one that is none.
Names == Kinds \cup {"PYRAMID"}

\* Whether the script holds a geometry of class cls that it has changed.
holds_mutated(cls) ==
    \E a \in 1..Len(heap) : heap[a].cls = cls /\ heap[a].geom # get_geometry(cls)

\* solid_classes.get(name, Tetrahedron)().get_geometry(), as execute does it,
\* the result kept by the script.
CallGetGeometry(name) ==
    LET cls  == solid_class_for(name)
        call == call_get_geometry(cls, heap)
    IN  /\ Len(call.heap) <= MaxHeap
        /\ heap' = call.heap
        /\ ret' = [api |-> "v2", name |-> name, geom |-> call.heap[call.ref].geom,
                   after_mutation |-> holds_mutated(cls), result |-> "OK"]
        /\ UNCHANGED <<props, request, objects, materials, active, last>>

\* v1.1: generate_geometry(name), the result looked at and dropped.
CallGenerateGeometry(name) ==
    /\ ret' = [api |-> "v1.1", name |-> name, geom |-> generate_geometry(name),
               after_mutation |-> FALSE, result |-> "OK"]
    /\ UNCHANGED <<props, request, objects, materials, active, last, heap>>

\* The script changes each list of a geometry it holds, in place:
\* vertices[0] = (0, 0, 0); edges[:] = [(0, 1)]; faces.clear()
Mutate(a) ==
    /\ a \in 1..Len(heap)
    /\ Len(heap[a].geom.vertices) > 0
    /\ heap' = [heap EXCEPT ![a].geom =
                    Geometry([@.vertices EXCEPT ![1] = <<0, 0, 0>>], << <<0, 1>> >>, << >>)]
    /\ UNCHANGED <<props, request, objects, materials, active, last, ret>>

\* The script lets go of the geometry it got last.
Release ==
    /\ Len(heap) > 0
    /\ heap' = SubSeq(heap, 1, Len(heap) - 1)
    /\ UNCHANGED <<props, request, objects, materials, active, last, ret>>

\* A script calling the geometry code, changing what it got, and running the
\* generate operator with the settings left at their defaults.
NextCaller ==
    \/ \E name \in Names : CallGetGeometry(name)
    \/ \E name \in Names : CallGenerateGeometry(name)
    \/ \E a \in 1..MaxHeap : Mutate(a)
    \/ Release
    \/ Generate

SpecCaller == Init /\ [][NextCaller]_vars

(***************************************************************************)
(* v1.3: SolidBuilder.add_object and the template operator                 *)
(***************************************************************************)

\* Bound: the template batches a scene may hold.
MaxBatches == 1

\* A location given in whole scene units, in model units.
At(x, y, z) == <<1000000 * x, 1000000 * y, 1000000 * z>>

\* Faulty variant of template_data: two solids share a place and the order of
\* two others is swapped.
template_data_misplaced ==
    << [name |-> "Tetrahedron", cls |-> "Tetrahedron", location |-> At(0, 0, 0)],
       [name |-> "Octahedron", cls |-> "Octahedron", location |-> At(4, 0, 0)],
       [name |-> "Cube", cls |-> "Cube", location |-> At(4, 0, 0)],
       [name |-> "Dodecahedron", cls |-> "Dodecahedron", location |-> At(8, 0, 0)],
       [name |-> "Icosahedron", cls |-> "Icosahedron", location |-> At(-8, 0, 0)] >>

\* template_data of OBJECT_OT_generate_template1.execute
template_data ==
    << [name |-> "Tetrahedron", cls |-> "Tetrahedron", location |-> At(0, 0, 0)],
       [name |-> "Cube", cls |-> "Cube", location |-> At(4, 0, 0)],
       [name |-> "Octahedron", cls |-> "Octahedron", location |-> At(-4, 0, 0)],
       [name |-> "Dodecahedron", cls |-> "Dodecahedron", location |-> At(8, 0, 0)],
       [name |-> "Icosahedron", cls |-> "Icosahedron", location |-> At(-8, 0, 0)] >>

\* SolidBuilder.add_object (v1.3) on a scene [objects, materials]: the scene
\* after the call.
add_object(scene, name, cls, color, scale, location) ==
    [objects |-> Append(scene.objects,
                        new_object(name, get_geometry13(cls), scale, location)),
     materials |-> create_material(scene.materials, material_name(name), color)]

\* for name, solid, location in data: SolidBuilder.add_object(...)
RECURSIVE add_all(_, _, _, _)
add_all(scene, data, color, scale) ==
    IF data = << >>
    THEN scene
    ELSE add_all(add_object(scene, Head(data).name, Head(data).cls, color, scale,
                            Head(data).location),
                 Tail(data), color, scale)

\* OBJECT_OT_generate_template1.execute
Template ==
    LET kept  == objects_after_clear(objects)
        scene == add_all([objects |-> kept, materials |-> materials],
                         template_data, props.color, props.scale)
    IN  /\ Len(kept) + Len(template_data) <= MaxBatches * Len(template_data)
        /\ objects' = scene.objects
        /\ materials' = scene.materials
        /\ active' = IF props.clear_before_create THEN 0 ELSE active
        /\ last' = [op |-> "template", shape_type |-> props.shape_type,
                    scale |-> props.scale, color |-> props.color,
                    request |-> request, created |-> Len(scene.objects) - Len(kept),
                    painted |-> last.painted, previous |-> << >>,
                    result |-> "FINISHED"]
        /\ UNCHANGED <<props, request, heap, ret>>

\* The scales tried with the template: those of ScaleInputs and two around the
\* size at which neighbours meet.
TemplateScaleInputs == ScaleInputs \cup {12, 13}

\* The v1.3 add-on's template operator and the settings it reads.
Next13 ==
    \/ \E v \in TemplateScaleInputs : SetScale(v)
    \/ \E c \in ColorInputs : SetColor(c)
    \/ \E b \in BOOLEAN : SetClearBeforeCreate(b)
    \/ Template

Spec13 == Init /\ [][Next13]_vars

(***************************************************************************)
(* Properties                                                              *)
(***************************************************************************)

\* The vertex and face counts of the five solids.
ExpectedVertices(k) ==
    CASE k = "TETRAHEDRON" -> 4
      [] k = "CUBE" -> 8
      [] k = "OCTAHEDRON" -> 6
      [] k = "DODECAHEDRON" -> 20
      [] k = "ICOSAHEDRON" -> 12

ExpectedFaces(k) ==
    CASE k = "TETRAHEDRON" -> 4
      [] k = "CUBE" -> 6
      [] k = "OCTAHEDRON" -> 8
      [] k = "DODECAHEDRON" -> 12
      [] k = "ICOSAHEDRON" -> 20

\* The last object of the scene: the one the last operator created last.
Newest == objects[Len(objects)]

\* The vertex, edge and face lists of a mesh.
MeshGeometry(mesh) == Geometry(mesh.vertices, mesh.edges, mesh.faces)

\* C1: the geometry returned for each of the five kinds, by get_geometry (v2)
\* and by generate_geometry (v1.1), has the kind's vertex and face counts:
\* tetrahedron 4 and 4, cube 8 and 6, octahedron 6 and 8, dodecahedron 20 and
\* 12, icosahedron 12 and 20; so has the mesh of every generated object.
C1_Counts ==
    /\ (ret.api # "none" /\ ret.name \in Kinds) =>
          /\ Len(ret.geom.vertices) = ExpectedVertices(ret.name)
          /\ Len(ret.geom.faces) = ExpectedFaces(ret.name)
    /\ \A i \in 1..Len(objects) :
          /\ Len(objects[i].mesh.vertices) = ExpectedVertices(objects[i].name)
          /\ Len(objects[i].mesh.faces) = ExpectedFaces(objects[i].name)

C1_Witness ==
    /\ ret.api = "v2"
    /\ ret.name = "DODECAHEDRON"
    /\ Len(ret.geom.vertices) = 20
    /\ Len(ret.geom.faces) = 12

\* A face of a solid with n vertices: every index in 0..n-1, at least three of
\* them distinct.
ValidFace(f, n) ==
    /\ \A i \in 1..Len(f) : 0 <= f[i] /\ f[i] < n
    /\ Cardinality({f[i] : i \in 1..Len(f)}) >= 3

ValidEdge(e, n) == \A i \in 1..Len(e) : 0 <= e[i] /\ e[i] < n

\* C2: in the geometry returned for each of the five kinds every face has all
\* its indices in 0 .. (number of vertices - 1) and at least three distinct
\* indices, and every edge listed joins vertices that exist.
C2_FacesValid ==
    (ret.api # "none" /\ ret.name \in Kinds) =>
        LET n == Len(ret.geom.vertices)
        IN  /\ \A i \in 1..Len(ret.geom.faces) : ValidFace(ret.geom.faces[i], n)
            /\ \A i \in 1..Len(ret.geom.edges) : ValidEdge(ret.geom.edges[i], n)

C2_Witness ==
    /\ ret.api = "v2"
    /\ ret.name = "CUBE"
    /\ Len(ret.geom.faces) = 6
    /\ \A i \in 1..6 : Len(ret.geom.faces[i]) = 4

\* C3: asking for the geometry of a name that is none of the five kinds is
\* reported as an invalid-argument error, and yields neither an empty geometry
\* nor the geometry of some default solid.
C3_UnknownKindRejected ==
    (ret.api # "none" /\ ret.name \notin Kinds) => ret.result = "InvalidArgument"

\* The scale s (tenths) is applied once to object o of canonical vertices
\* canon: baked into the vertices with the object's scale at 1.0, or left to
\* the object's scale with the vertices canonical.
AppliedOnce(o, canon, s) ==
    \/ /\ o.mesh.vertices = canon
       /\ o.scale = <<s, s, s>>
    \/ /\ \A i \in 1..Len(canon) : \A j \in 1..3 :
              10 * o.mesh.vertices[i][j] = s * canon[i][j]
       /\ Len(o.mesh.vertices) = Len(canon)
       /\ o.scale = <<ScaleDefault, ScaleDefault, ScaleDefault>>

CanonicalOf(name) == get_geometry(solid_class_for(name))

\* C4: the scale asked for is applied exactly once to every generated object:
\* the object generate has just made carries the scale it read either in its
\* vertices or in its instance scale, never in both, and every object of the
\* scene is in one of these two forms for some scale of the allowed range.
C4_ScaleAppliedOnce ==
    /\ (last.op = "generate") =>
          AppliedOnce(Newest, CanonicalOf(last.shape_type).vertices, last.scale)
    /\ \A i \in 1..Len(objects) :
          \E s \in ScaleMin..ScaleMax :
              AppliedOnce(objects[i], CanonicalOf(objects[i].name).vertices, s)

C4_Witness ==
    /\ last.op = "generate"
    /\ last.scale = ScaleMax
    /\ Newest.scale = <<ScaleMax, ScaleMax, ScaleMax>>
    /\ Newest.name = "CUBE"

\* C5 as stated: the geometry generate produces has every canonical vertex
\* multiplied by the scale, and the canonical faces and edges.
C5_VerticesScaled ==
    (last.op = "generate") =>
        LET canon == CanonicalOf(last.shape_type)
        IN  /\ Len(Newest.mesh.vertices) = Len(canon.vertices)
            /\ \A i \in 1..Len(canon.vertices) : \A j \in 1..3 :
                  10 * Newest.mesh.vertices[i][j] = last.scale * canon.vertices[i][j]
            /\ Newest.mesh.faces = canon.faces
            /\ Newest.mesh.edges = canon.edges

\* C5 as amended: for every kind and every scale, the mesh generate produces
\* has the canonical vertices, faces and edges of the kind unchanged, whatever
\* the scale; the scale is carried by the object's instance scale (s, s, s).
\* For a scale of 1.0 the vertices are thus the canonical ones times the scale.
C5_CanonicalMeshScaledInstance ==
    (last.op = "generate") =>
        /\ MeshGeometry(Newest.mesh) = CanonicalOf(last.shape_type)
        /\ Newest.scale = <<last.scale, last.scale, last.scale>>
        /\ Newest.name = last.shape_type

C5_Witness ==
    /\ last.op = "generate"
    /\ last.scale = ScaleMin
    /\ last.shape_type = "ICOSAHEDRON"
    /\ Newest.mesh.vertices = Icosahedron_get_geometry.vertices
    /\ Newest.scale = <<ScaleMin, ScaleMin, ScaleMin>>

InRange(c) == \A i \in 1..4 : ChannelMin <= c[i] /\ c[i] <= ChannelMax

Batch == SubSeq(objects, Len(objects) - 4, Len(objects))

\* C8: the template creates exactly five solids, one of each kind and each
\* once, in the order tetrahedron, cube, octahedron, dodecahedron, icosahedron,
\* at 0, +4, -4, +8, -8 along x: five places no two of which are equal.
C8_TemplateLayout ==
    (last.op = "template") =>
        /\ last.created = 5
        /\ Len(objects) >= 5
        /\ \A i \in 1..5 :
              /\ Batch[i].name = solid_classes[ShapeTypes[i]]
              /\ Len(Batch[i].mesh.vertices) = ExpectedVertices(ShapeTypes[i])
              /\ Len(Batch[i].mesh.faces) = ExpectedFaces(ShapeTypes[i])
        /\ <<Batch[1].location, Batch[2].location, Batch[3].location,
             Batch[4].location, Batch[5].location>>
              = <<At(0, 0, 0), At(4, 0, 0), At(-4, 0, 0), At(8, 0, 0), At(-8, 0, 0)>>
        /\ \A i, j \in 1..5 : i # j => Batch[i].location # Batch[j].location

C8_Witness ==
    /\ last.op = "template"
    /\ Len(objects) = 5
    /\ objects[1].name = "Tetrahedron"
    /\ objects[5].name = "Icosahedron"
    /\ objects[5].location = At(-8, 0, 0)

\* Ten times the x coordinate, in the scene, of vertex i of object o.
WorldX10(o, i) == o.mesh.vertices[i][1] * o.scale[1] + 10 * o.location[1]

\* Object a lies wholly at or below object b along x.
LeftOf(a, b) ==
    \A i \in 1..Len(a.mesh.vertices) : \A j \in 1..Len(b.mesh.vertices) :
        WorldX10(a, i) <= WorldX10(b, j)

\* C9: at every allowed scale no two solids of a template batch overlap along
\* the layout axis: their extents along x, scaled and placed, are disjoint.
C9_NoOverlap ==
    (last.op = "template") =>
        \A i, j \in 1..5 : i # j => LeftOf(Batch[i], Batch[j]) \/ LeftOf(Batch[j], Batch[i])

\* C10: the geometry of a kind never changes: whatever the script did to the
\* lists it got from earlier calls, a later call returns the kind's canonical
\* vertices, edges and faces, and so does the mesh of every generated object.
C10_CanonicalConstant ==
    /\ (ret.api = "v2") => ret.geom = CanonicalOf(ret.name)
    /\ \A i \in 1..Len(objects) :
          MeshGeometry(objects[i].mesh) = CanonicalOf(objects[i].name)

C10_Witness ==
    /\ ret.api = "v2"
    /\ ret.after_mutation
    /\ holds_mutated(solid_class_for(ret.name))
    /\ ret.geom = CanonicalOf(ret.name)

\* The consecutive vertex pairs of a face, the last vertex paired with the
\* first, in the direction in which the face lists them.
FaceEdges(f) == {<<f[i], f[(i % Len(f)) + 1]>> : i \in 1..Len(f)}

\* Two faces of g list a common edge's two vertices in the same direction.
SameDirectionPair(g) ==
    \E i, j \in 1..Len(g.faces) :
        /\ i < j
        /\ FaceEdges(g.faces[i]) \cap FaceEdges(g.faces[j]) # {}

\* C11: the face lists are not consistently wound: in the geometry returned for
\* a kind (each of the five, so for at least one) there are two faces that
\* list the two vertices of an edge they share in the same direction.
C11_WindingInconsistent ==
    (ret.api = "v2" /\ ret.name \in Kinds) => SameDirectionPair(ret.geom)

C11_Witness ==
    /\ ret.api = "v2"
    /\ ret.name = "TETRAHEDRON"
    /\ <<0, 1>> \in FaceEdges(ret.geom.faces[1]) \cap FaceEdges(ret.geom.faces[2])

\* The edges of g without their direction.
UndirectedEdges(g) ==
    UNION {{{e[1], e[2]} : e \in FaceEdges(g.faces[i])} : i \in 1..Len(g.faces)}

\* The faces of g that have the undirected edge e.
FacesWithEdge(g, e) ==
    {i \in 1..Len(g.faces) : \E d \in FaceEdges(g.faces[i]) : {d[1], d[2]} = e}

ExpectedEdges(k) ==
    CASE k = "TETRAHEDRON" -> 6
      [] k = "CUBE" -> 12
      [] k = "OCTAHEDRON" -> 12
      [] k = "DODECAHEDRON" -> 30
      [] k = "ICOSAHEDRON" -> 30

ClosedSurface(g, k) ==
    LET E == UndirectedEdges(g)
    IN  /\ \A e \in E : Cardinality(FacesWithEdge(g, e)) = 2
        /\ \A v \in 0..(Len(g.vertices) - 1) :
              \E i \in 1..Len(g.faces) : \E n \in 1..Len(g.faces[i]) : g.faces[i][n] = v
        /\ Len(g.vertices) - Cardinality(E) + Len(g.faces) = 2
        /\ Cardinality(E) = ExpectedEdges(k)

\* C12: the faces returned for a kind form a closed surface: every edge of a
\* face (consecutive vertices, last to first included) belongs to exactly two
\* faces, every vertex is in some face, V - E + F = 2, and E is 6, 12, 12,
\* 30, 30 for the five kinds.
C12_ClosedSurface ==
    (ret.api = "v2" /\ ret.name \in Kinds) => ClosedSurface(ret.geom, ret.name)

C12_Witness ==
    /\ ret.api = "v2"
    /\ ret.name = "ICOSAHEDRON"
    /\ Cardinality(UndirectedEdges(ret.geom)) = 30
    /\ Cardinality(FacesWithEdge(ret.geom, {7, 9})) = 2

\* The colour an object is shown in: that of the material in its first slot.
ObjectColor(o) == materials[o.mesh.materials[1]]

\* C13: whatever was generated, the only materials are the "<KIND>_Material"
\* ones, one per name; every object uses the material of its kind; and that
\* material has the colour of the latest generate of the kind, so every earlier
\* object of the kind is shown in that colour too.
C13_SharedMaterial ==
    /\ DOMAIN materials \subseteq {material_name(k) : k \in Kinds}
    /\ \A n \in DOMAIN materials :
          n \in DOMAIN last.painted /\ materials[n] = last.painted[n]
    /\ \A i \in 1..Len(objects) :
          /\ objects[i].mesh.materials = <<material_name(objects[i].name)>>
          /\ material_name(objects[i].name) \in DOMAIN materials
          /\ ObjectColor(objects[i]) = last.painted[material_name(objects[i].name)]

C13_Witness ==
    /\ last.op = "generate"
    /\ Len(objects) = 2
    /\ objects[1].name = last.shape_type
    /\ objects[2].name = last.shape_type
    /\ last.previous = <<ColorDefault>>
    /\ last.color = <<1000, 0, 0, 1000>>
    /\ ObjectColor(objects[1]) = last.color
    /\ ObjectColor(objects[2]) = last.color

\* C14: a generate that runs with clear_before_create set leaves exactly one
\* object in the scene, of the kind asked for, whatever was there before; a
\* generate that runs with it unset keeps every object that was there, in
\* place and unchanged, and adds exactly one, of the kind asked for.
C14_ClearOrGrow ==
    [][GenerateWithin(MaxSceneObjects) =>
          IF props.clear_before_create
          THEN /\ Len(objects') = 1
               /\ objects'[1].name = props.shape_type
          ELSE /\ Len(objects') = Len(objects) + 1
               /\ SubSeq(objects', 1, Len(objects)) = objects
               /\ objects'[Len(objects')].name = props.shape_type]_vars

\* The latest generate found the material of its kind in place, so the scene
\* held an object before it ran, and it left one object only.
C14_Witness ==
    /\ last.op = "generate"
    /\ last.previous # << >>
    /\ Len(objects) = 1
    /\ objects[1].name = last.shape_type

====
